---- MODULE Spec2Model ----
(***************************************************************************)
(* construct_runtime: index assignment of the declared pallets and the     *)
(* generated artifacts that depend on it                                   *)
(* (frame/support/procedural/src/construct_runtime/mod.rs).                *)
(*                                                                         *)
(* An Ident is modelled by its string and its span; the span of the name   *)
(* of the k-th declaration is k.  Option<T> is modelled as a sequence of   *)
(* length at most one: None is << >> and Some(v) is <<v>>.  A HashMap is a *)
(* function whose DOMAIN is the set of keys inserted so far.               *)
(***************************************************************************)
EXTENDS Integers, Sequences, FiniteSets

VARIABLES
    decl,             \* RuntimeDefinition.pallets: the parsed declarations
    pc,               \* position in construct_runtime_parsed
    i,                \* declarations consumed by the iterator of complete_pallets
    last_index,       \* complete_pallets: last_index
    indices,          \* complete_pallets: indices (final index -> Ident)
    names,            \* complete_pallets: names (name -> span)
    pallets,          \* the Vec<Pallet> collected by complete_pallets
    system_pallet,    \* construct_runtime_parsed: system_pallet
    outer_event,      \* construct_runtime_parsed: outer_event
    outer_origin,     \* construct_runtime_parsed: outer_origin
    all_pallets,      \* construct_runtime_parsed: all_pallets
    pallet_to_index,  \* construct_runtime_parsed: pallet_to_index
    res,              \* the Ok(res) of construct_runtime_parsed
    err               \* the Err(e) of construct_runtime_parsed

vars == <<decl, pc, i, last_index, indices, names, pallets, system_pallet,
          outer_event, outer_origin, all_pallets, pallet_to_index, res, err>>

----------------------------------------------------------------------------
(* Bounds of the checked inputs *)

\* longest declaration list of the index-assignment inputs
MaxDecls == 3

\* longest declaration list of the code-generation inputs
MaxPallets == 2

\* largest value of a u8
U8Max == 255

SYSTEM_PALLET_NAME == "System"

None == << >>

Some(v) == <<v>>

IsSome(o) == o # << >>

Unwrap(o) == o[1]

EmptyMap == [k \in {} |-> 0]

Min(S) == CHOOSE x \in S : \A y \in S : x <= y

\* the runtime name of the definition (RuntimeDefinition.name)
RuntimeName == "Runtime"

----------------------------------------------------------------------------
(* Inputs *)

PalletNames == {SYSTEM_PALLET_NAME, "A", "B"}

ExplicitIndices == {0, 1, 254, U8Max}

PartPallet == [name |-> "Pallet", generics |-> << >>]

PartEvent == [name |-> "Event", generics |-> << >>]

PartEventT == [name |-> "Event", generics |-> <<"T">>]

PartOrigin == [name |-> "Origin", generics |-> << >>]

PartOriginT == [name |-> "Origin", generics |-> <<"T">>]

\* part lists: the Pallet marker, then Event or Origin parts, plain or generic
PartLists ==
    { <<PartPallet>>,
      <<PartPallet, PartEvent>>,
      <<PartPallet, PartEventT>>,
      <<PartPallet, PartOrigin>>,
      <<PartPallet, PartOriginT>>,
      <<PartPallet, PartEvent, PartOrigin>> }

SeqsUpTo(S, n) == UNION { [1..m -> S] : m \in 0..n }

\* declarations that vary in name and explicit index
IndexDecls ==
    [ name : PalletNames,
      index : {None} \cup { Some(x) : x \in ExplicitIndices },
      pallet : {"pallet_x"},
      instance : {None},
      pallet_parts : {<<PartPallet>>} ]

\* declarations that vary in name, implementation path and instance
TypeDecls ==
    [ name : PalletNames,
      index : {None, Some(5)},
      pallet : {"frame_system", "pallet_x"},
      instance : {None, Some("Instance1")},
      pallet_parts : {<<PartPallet>>, <<PartPallet, PartEvent, PartOrigin>>} ]

\* declarations that vary in name, instance and declared parts
PartDecls ==
    [ name : PalletNames,
      index : {None, Some(5)},
      pallet : {"pallet_x"},
      instance : {None, Some("Instance1")},
      pallet_parts : PartLists ]

----------------------------------------------------------------------------
(* Pallet *)

\* Pallet::find_part
find_part(pallet, name) ==
    LET hits == { k \in 1..Len(pallet.pallet_parts) :
                    pallet.pallet_parts[k].name = name }
    IN  IF hits = {} THEN None ELSE Some(pallet.pallet_parts[Min(hits)])

\* Pallet::exists_part
exists_part(pallet, name) == IsSome(find_part(pallet, name))

----------------------------------------------------------------------------
(* complete_pallets *)

\* u8::checked_add
checked_add(a, b) == IF a + b > U8Max THEN None ELSE Some(a + b)

\* faulty variant: the addition wraps
final_index_wrapping(pallet, last) ==
    IF IsSome(pallet.index) THEN Some(Unwrap(pallet.index))
    ELSE IF last = None THEN Some(0)
    ELSE Some((Unwrap(last) + 1) % (U8Max + 1))

\* faulty variant: an implicit index is the position of the declaration instead of
\* the successor of the last index
final_index_counting(pallet, last) ==
    IF IsSome(pallet.index) THEN Some(Unwrap(pallet.index))
    ELSE IF last = None THEN Some(0)
    ELSE checked_add(i, 0)

\* the match on pallet.index: Some(final index), or None for the overflow
final_index(pallet, last) ==
    IF IsSome(pallet.index) THEN Some(Unwrap(pallet.index))
    ELSE IF last = None THEN Some(0)
    ELSE checked_add(Unwrap(last), 1)

\* faulty variant: the previous holder of the key is not reported
insert_forgetting(map, k, v) ==
    [ old |-> None,
      map |-> [ x \in DOMAIN map \cup {k} |-> IF x = k THEN v ELSE map[x] ] ]

\* HashMap::insert: the previous value of the key, and the map after
insert(map, k, v) ==
    [ old |-> IF k \in DOMAIN map THEN Some(map[k]) ELSE None,
      map |-> [ x \in DOMAIN map \cup {k} |-> IF x = k THEN v ELSE map[x] ] ]

\* faulty variant: the error names the current declaration only
conflicting_indices_current_only(used_pallet, name, span, index) ==
    [ kind |-> "DuplicateIndex", spans |-> <<span>>,
      named |-> <<name>>, index |-> index ]

\* "Pallet indices are conflicting: Both pallets {} and {} are at index {}"
conflicting_indices(used_pallet, name, span, index) ==
    [ kind |-> "DuplicateIndex", spans |-> <<used_pallet.span, span>>,
      named |-> <<used_pallet.name, name>>, index |-> index ]

\* faulty variant: an index is never found to be used
indices_insert_forgetting(map, index, ident) == insert_forgetting(map, index, ident)

\* indices.insert(final_index, pallet.name.clone())
indices_insert(map, index, ident) == insert(map, index, ident)

\* faulty variant: a name is never found to be used
names_insert_forgetting(map, name, span) == insert_forgetting(map, name, span)

\* names.insert(pallet.name.clone(), pallet.name.span())
names_insert(map, name, span) == insert(map, name, span)

\* "Two pallets with the same name!"
same_name(used_span, span) ==
    [ kind |-> "DuplicateName", spans |-> <<used_span, span>> ]

\* "Pallet index doesn't fit into u8, index is 256"
index_overflow(span) == [ kind |-> "IndexOverflow", spans |-> <<span>> ]

\* the closure of complete_pallets applied to the next declaration; collect()
\* stops at the first Err and drops the pallets collected so far
CompletePalletsStep ==
    /\ pc = "complete_pallets"
    /\ i < Len(decl)
    /\ i' = i + 1
    /\ LET pallet == decl[i + 1]
           span == i + 1
           fi == final_index(pallet, last_index)
       IN  IF fi = None
           THEN /\ err' = Some(index_overflow(span))
                /\ pc' = "done"
                /\ pallets' = << >>
                /\ UNCHANGED <<last_index, indices, names>>
           ELSE LET used == indices_insert(indices, Unwrap(fi),
                                   [name |-> pallet.name, span |-> span])
                    seen == names_insert(names, pallet.name, span)
                IN  /\ last_index' = fi
                    /\ indices' = used.map
                    /\ IF IsSome(used.old)
                       THEN /\ err' = Some(conflicting_indices(
                                          Unwrap(used.old), pallet.name, span,
                                          Unwrap(fi)))
                            /\ pc' = "done"
                            /\ pallets' = << >>
                            /\ UNCHANGED names
                       ELSE /\ names' = seen.map
                            /\ IF IsSome(seen.old)
                               THEN /\ err' = Some(same_name(Unwrap(seen.old), span))
                                    /\ pc' = "done"
                                    /\ pallets' = << >>
                               ELSE /\ pallets' = Append(pallets,
                                          [ name |-> pallet.name,
                                            span |-> span,
                                            index |-> Unwrap(fi),
                                            pallet |-> pallet.pallet,
                                            instance |-> pallet.instance,
                                            pallet_parts |-> pallet.pallet_parts ])
                                    /\ UNCHANGED <<pc, err>>
    /\ UNCHANGED <<decl, system_pallet, outer_event, outer_origin, all_pallets,
                   pallet_to_index, res>>

\* the iterator is exhausted: collect() returns Ok(pallets)
CompletePalletsCollect ==
    /\ pc = "complete_pallets"
    /\ i = Len(decl)
    /\ pc' = "find_system"
    /\ UNCHANGED <<decl, i, last_index, indices, names, pallets, system_pallet,
                   outer_event, outer_origin, all_pallets, pallet_to_index,
                   res, err>>

----------------------------------------------------------------------------
(* construct_runtime_parsed: the system pallet *)

\* faulty variant: only the first declaration is looked at
find_system_first_only(ps) ==
    IF Len(ps) > 0 /\ ps[1].name = SYSTEM_PALLET_NAME THEN Some(ps[1]) ELSE None

\* pallets.iter().find(|decl| decl.name == SYSTEM_PALLET_NAME)
find_system(ps) ==
    LET hits == { k \in 1..Len(ps) : ps[k].name = SYSTEM_PALLET_NAME }
    IN  IF hits = {} THEN None ELSE Some(ps[Min(hits)])

\* "`System` pallet declaration is missing", at pallets_token.span (span 0)
missing_system == [ kind |-> "MissingSystemModule", spans |-> <<0>> ]

FindSystemPallet ==
    /\ pc = "find_system"
    /\ LET found == find_system(pallets)
       IN  IF found = None
           THEN /\ err' = Some(missing_system)
                /\ pc' = "done"
                /\ UNCHANGED system_pallet
           ELSE /\ system_pallet' = found
                /\ pc' = "decl_outer_event"
                /\ UNCHANGED err
    /\ UNCHANGED <<decl, i, last_index, indices, names, pallets, outer_event,
                   outer_origin, all_pallets, pallet_to_index, res>>

----------------------------------------------------------------------------
(* decl_outer_event *)

\* "Instantiable pallet with no generic `Event` cannot be constructed"
no_generic_event(pallet_declaration) ==
    [ kind |-> "InstanceRequiresGenericEvent",
      spans |-> <<pallet_declaration.span>>,
      named |-> <<pallet_declaration.name>> ]

\* #[codec(index = #index)] #pallet #instance #generics,
variant(pallet_declaration, pallet_entry) ==
    [ index |-> pallet_declaration.index,
      pallet |-> pallet_declaration.pallet,
      instance |-> pallet_declaration.instance,
      generics |-> pallet_entry.generics ]

RECURSIVE outer_event_loop(_, _, _)
\* the for loop of decl_outer_event, from the k-th declaration on
outer_event_loop(ps, k, pallets_tokens) ==
    IF k > Len(ps)
    THEN [ ok |-> TRUE, tokens |-> pallets_tokens ]
    ELSE LET pallet_declaration == ps[k]
             found == find_part(pallet_declaration, "Event")
         IN  IF IsSome(found)
             THEN IF /\ IsSome(pallet_declaration.instance)
                     /\ Unwrap(found).generics = << >>
                  THEN [ ok |-> FALSE, err |-> no_generic_event(pallet_declaration) ]
                  ELSE outer_event_loop(ps, k + 1,
                          Append(pallets_tokens,
                                 variant(pallet_declaration, Unwrap(found))))
             ELSE outer_event_loop(ps, k + 1, pallets_tokens)

RECURSIVE outer_event_loop_unchecked(_, _, _)
\* faulty variant: the system pallet is exempt from the instance check
outer_event_loop_unchecked(ps, k, pallets_tokens) ==
    IF k > Len(ps)
    THEN [ ok |-> TRUE, tokens |-> pallets_tokens ]
    ELSE LET pallet_declaration == ps[k]
             found == find_part(pallet_declaration, "Event")
         IN  IF IsSome(found)
             THEN IF /\ IsSome(pallet_declaration.instance)
                     /\ Unwrap(found).generics = << >>
                     /\ pallet_declaration.name # SYSTEM_PALLET_NAME
                  THEN [ ok |-> FALSE, err |-> no_generic_event(pallet_declaration) ]
                  ELSE outer_event_loop_unchecked(ps, k + 1,
                          Append(pallets_tokens,
                                 variant(pallet_declaration, Unwrap(found))))
             ELSE outer_event_loop_unchecked(ps, k + 1, pallets_tokens)

decl_outer_event_system_exempt(ps) == outer_event_loop_unchecked(ps, 1, << >>)

decl_outer_event(ps) == outer_event_loop(ps, 1, << >>)

DeclOuterEvent ==
    /\ pc = "decl_outer_event"
    /\ LET r == decl_outer_event(pallets)
       IN  IF r.ok
           THEN /\ outer_event' = Some(r.tokens)
                /\ pc' = "decl_outer_origin"
                /\ UNCHANGED err
           ELSE /\ err' = Some(r.err)
                /\ pc' = "done"
                /\ UNCHANGED outer_event
    /\ UNCHANGED <<decl, i, last_index, indices, names, pallets, system_pallet,
                   outer_origin, all_pallets, pallet_to_index, res>>

----------------------------------------------------------------------------
(* decl_outer_origin *)

\* "Instantiable pallet with no generic `Origin` cannot be constructed"
no_generic_origin(pallet_declaration) ==
    [ kind |-> "InstanceRequiresGenericOrigin",
      spans |-> <<pallet_declaration.span>>,
      named |-> <<pallet_declaration.name>> ]

RECURSIVE outer_origin_loop(_, _, _)
\* the for loop of decl_outer_origin, from the k-th declaration on
outer_origin_loop(ps, k, pallets_tokens) ==
    IF k > Len(ps)
    THEN [ ok |-> TRUE, tokens |-> pallets_tokens ]
    ELSE LET pallet_declaration == ps[k]
             found == find_part(pallet_declaration, "Origin")
         IN  IF IsSome(found)
             THEN IF /\ IsSome(pallet_declaration.instance)
                     /\ Unwrap(found).generics = << >>
                  THEN [ ok |-> FALSE, err |-> no_generic_origin(pallet_declaration) ]
                  ELSE outer_origin_loop(ps, k + 1,
                          Append(pallets_tokens,
                                 variant(pallet_declaration, Unwrap(found))))
             ELSE outer_origin_loop(ps, k + 1, pallets_tokens)

\* faulty variant: the system index is the first index instead of the system pallet's
decl_outer_origin_index_zero(pallets_except_system, system) ==
    LET r == outer_origin_loop(pallets_except_system, 1, << >>)
    IN  IF r.ok
        THEN [ ok |-> TRUE,
               tokens |-> [ system |-> system.pallet,
                            system_index |-> 0,
                            pallets_tokens |-> r.tokens ] ]
        ELSE r

decl_outer_origin(pallets_except_system, system) ==
    LET r == outer_origin_loop(pallets_except_system, 1, << >>)
    IN  IF r.ok
        THEN [ ok |-> TRUE,
               tokens |-> [ system |-> system.pallet,
                            system_index |-> system.index,
                            pallets_tokens |-> r.tokens ] ]
        ELSE r

\* pallets.iter().filter(|pallet| pallet.name != SYSTEM_PALLET_NAME)
all_but_system_pallets(ps) ==
    SelectSeq(ps, LAMBDA pallet : pallet.name # SYSTEM_PALLET_NAME)

DeclOuterOrigin ==
    /\ pc = "decl_outer_origin"
    /\ LET r == decl_outer_origin(all_but_system_pallets(pallets),
                                  Unwrap(system_pallet))
       IN  IF r.ok
           THEN /\ outer_origin' = Some(r.tokens)
                /\ pc' = "decl_all_pallets"
                /\ UNCHANGED err
           ELSE /\ err' = Some(r.err)
                /\ pc' = "done"
                /\ UNCHANGED outer_origin
    /\ UNCHANGED <<decl, i, last_index, indices, names, pallets, system_pallet,
                   outer_event, all_pallets, pallet_to_index, res>>

----------------------------------------------------------------------------
(* decl_all_pallets *)

\* pub type #type_name = #pallet::Pallet <#(#generics),*>;
type_decl(runtime, pallet_declaration) ==
    [ type_name |-> pallet_declaration.name,
      pallet |-> pallet_declaration.pallet,
      generics |-> <<runtime>> \o
                   ( IF IsSome(pallet_declaration.instance)
                     THEN << <<pallet_declaration.pallet,
                               Unwrap(pallet_declaration.instance)>> >>
                     ELSE << >> ) ]

RECURSIVE fold_names(_, _, _)
\* names.fold(TokenStream2::default(), |combined, name| quote!((#name, #combined)))
\* from the k-th name on; the empty token stream is << >>
fold_names(ns, k, combined) ==
    IF k > Len(ns) THEN combined
    ELSE fold_names(ns, k + 1, <<ns[k], combined>>)

decl_all_pallets(runtime, ps) ==
    LET ns == [ k \in 1..Len(ps) |-> ps[k].name ]
    IN  [ types |-> [ k \in 1..Len(ps) |-> type_decl(runtime, ps[k]) ],
          all_pallets |->
              fold_names(SelectSeq(ns, LAMBDA n : n # SYSTEM_PALLET_NAME), 1, << >>),
          all_pallets_with_system |-> fold_names(ns, 1, << >>) ]

DeclAllPallets ==
    /\ pc = "decl_all_pallets"
    /\ all_pallets' = Some(decl_all_pallets(RuntimeName, pallets))
    /\ pc' = "decl_pallet_runtime_setup"
    /\ UNCHANGED <<decl, i, last_index, indices, names, pallets, system_pallet,
                   outer_event, outer_origin, pallet_to_index, res, err>>

RECURSIVE flatten(_)
\* the components of a nested pair structure, outermost first component first
flatten(t) == IF t = << >> THEN << >> ELSE <<t[1]>> \o flatten(t[2])

----------------------------------------------------------------------------
(* decl_pallet_runtime_setup *)

\* the rows of the two generated scans: the alias compared, and what is returned
decl_pallet_runtime_setup(ps) ==
    [ index |-> [ k \in 1..Len(ps) |->
                    [ names |-> ps[k].name, indices |-> ps[k].index ] ],
      name |-> [ k \in 1..Len(ps) |->
                    [ names2 |-> ps[k].name, name_strings |-> ps[k].name ] ] ]

DeclPalletRuntimeSetup ==
    /\ pc = "decl_pallet_runtime_setup"
    /\ pallet_to_index' = Some(decl_pallet_runtime_setup(pallets))
    /\ pc' = "quote"
    /\ UNCHANGED <<decl, i, last_index, indices, names, pallets, system_pallet,
                   outer_event, outer_origin, all_pallets, res, err>>

\* the concrete type a generated alias denotes: TypeId::of::<#names>()
TypeIdOf(types, type_name) ==
    LET t == types[Min({ k \in 1..Len(types) : types[k].type_name = type_name })]
    IN  [ pallet |-> t.pallet, generics |-> t.generics ]

\* the generated PalletInfo::index::<P>()
PalletInfoIndex(types, rows, P) ==
    LET hits == { k \in 1..Len(rows) : P = TypeIdOf(types, rows[k].names) }
    IN  IF hits = {} THEN None ELSE Some(rows[Min(hits)].indices)

\* the generated PalletInfo::name::<P>()
PalletInfoName(types, rows, P) ==
    LET hits == { k \in 1..Len(rows) : P = TypeIdOf(types, rows[k].names2) }
    IN  IF hits = {} THEN None ELSE Some(rows[Min(hits)].name_strings)

----------------------------------------------------------------------------
(* construct_runtime_parsed: the result *)

\* Ok(res): the fragments that depend on the resolved indices
Quote ==
    /\ pc = "quote"
    /\ res' = Some([ outer_event |-> Unwrap(outer_event),
                     outer_origin |-> Unwrap(outer_origin),
                     all_pallets |-> Unwrap(all_pallets),
                     pallet_to_index |-> Unwrap(pallet_to_index) ])
    /\ pc' = "done"
    /\ UNCHANGED <<decl, i, last_index, indices, names, pallets, system_pallet,
                   outer_event, outer_origin, all_pallets, pallet_to_index, err>>

----------------------------------------------------------------------------
(* Specifications *)

\* the state at the entry of construct_runtime_parsed, for a declaration list
Start(d) ==
    /\ decl = d
    /\ pc = "complete_pallets"
    /\ i = 0
    /\ last_index = None
    /\ indices = EmptyMap
    /\ names = EmptyMap
    /\ pallets = << >>
    /\ system_pallet = None
    /\ outer_event = None
    /\ outer_origin = None
    /\ all_pallets = None
    /\ pallet_to_index = None
    /\ res = None
    /\ err = None

Init == \E d \in SeqsUpTo(IndexDecls, MaxDecls) : Start(d)

InitTypes == \E d \in SeqsUpTo(TypeDecls, MaxPallets) : Start(d)

InitParts == \E d \in SeqsUpTo(PartDecls, MaxPallets) : Start(d)

Next ==
    \/ CompletePalletsStep
    \/ CompletePalletsCollect
    \/ FindSystemPallet
    \/ DeclOuterEvent
    \/ DeclOuterOrigin
    \/ DeclAllPallets
    \/ DeclPalletRuntimeSetup
    \/ Quote

Spec == Init /\ [][Next]_vars

SpecTypes == InitTypes /\ [][Next]_vars

SpecParts == InitParts /\ [][Next]_vars

----------------------------------------------------------------------------
(* What the properties are stated with *)

ErrKind == IF err = None THEN "Ok" ELSE Unwrap(err).kind

ErrSpans == IF err = None THEN << >> ELSE Unwrap(err).spans

\* complete_pallets has returned Ok
Resolved ==
    /\ pc # "complete_pallets"
    /\ ErrKind \notin {"IndexOverflow", "DuplicateIndex", "DuplicateName"}

RECURSIVE DeclaredIndex(_)
\* the final index the k-th declaration is meant to get, read off the
\* declarations: its explicit index, else 0 for the first declaration, else
\* the meant index of the declaration before it plus 1 (256 past the last u8)
DeclaredIndex(k) ==
    IF IsSome(decl[k].index) THEN Unwrap(decl[k].index)
    ELSE IF k = 1 THEN 0
    ELSE DeclaredIndex(k - 1) + 1

HasPart(k, name) == \E n \in 1..Len(decl[k].pallet_parts) :
                        decl[k].pallet_parts[n].name = name

\* the k-th declaration has an instance and a part `name` without generics
Offends(k, name) ==
    /\ IsSome(decl[k].instance)
    /\ \E n \in 1..Len(decl[k].pallet_parts) :
          /\ decl[k].pallet_parts[n].name = name
          /\ decl[k].pallet_parts[n].generics = << >>

Offenders(name) == { k \in 1..Len(decl) : Offends(k, name) }

SystemDecls == { k \in 1..Len(decl) : decl[k].name = SYSTEM_PALLET_NAME }

Positions == [ k \in 1..Len(decl) |-> k ]

\* the variants meant for the part `name`: one for each of the declarations
\* `ks` that has the part, in order, tagged with the declaration's final index
MeantVariants(ks, name) ==
    LET with == SelectSeq(ks, LAMBDA k : HasPart(k, name))
    IN  [ n \in 1..Len(with) |->
            [ index |-> DeclaredIndex(with[n]),
              pallet |-> decl[with[n]].pallet,
              instance |-> decl[with[n]].instance,
              generics |-> Unwrap(find_part(decl[with[n]], name)).generics ] ]

----------------------------------------------------------------------------
(* Index assignment *)

\* C1: in a successful resolution every pallet's final index is its explicit
\* index when one was given, and otherwise the final index of the declaration
\* before it plus 1, or 0 for the first declaration.
C1_FinalIndexRule ==
    Resolved =>
        /\ Len(pallets) = Len(decl)
        /\ \A k \in 1..Len(decl) :
              pallets[k].index =
                  IF IsSome(decl[k].index) THEN Unwrap(decl[k].index)
                  ELSE IF k = 1 THEN 0
                  ELSE pallets[k - 1].index + 1

\* implicit, explicit 254, implicit: resolved to 0, 254, 255
C1_Witness ==
    /\ Resolved
    /\ Len(decl) = 3
    /\ decl[1].index = None
    /\ decl[2].index = Some(254)
    /\ decl[3].index = None
    /\ pallets[3].index = U8Max

\* C2: a successful resolution keeps the length and the order of the
\* declarations, and its final indices and its names are pairwise distinct.
C2_DistinctIndicesAndNames ==
    Resolved =>
        /\ Len(pallets) = Len(decl)
        /\ \A k \in 1..Len(decl) :
              /\ pallets[k].name = decl[k].name
              /\ pallets[k].span = k
              /\ pallets[k].pallet = decl[k].pallet
              /\ pallets[k].instance = decl[k].instance
              /\ pallets[k].pallet_parts = decl[k].pallet_parts
        /\ \A j, k \in 1..Len(pallets) :
              j # k => /\ pallets[j].index # pallets[k].index
                       /\ pallets[j].name # pallets[k].name

\* an implicit index after an explicit index lower than an earlier one
C2_Witness ==
    /\ Resolved
    /\ Len(pallets) = 3
    /\ IsSome(decl[2].index)
    /\ pallets[2].index < pallets[1].index
    /\ decl[3].index = None

\* C3: when the declaration just consumed gets the final index of an earlier
\* declaration, resolution fails with DuplicateIndex, reported at the earlier
\* holder of the index and at the current declaration, and naming both.
C3_DuplicateIndex ==
    \A k \in 1..i : \A j \in 1..(k - 1) :
        DeclaredIndex(j) = DeclaredIndex(k) =>
            /\ i = k
            /\ ErrKind = "DuplicateIndex"
            /\ ErrSpans = <<j, k>>
            /\ Unwrap(err).named = <<decl[j].name, decl[k].name>>
            /\ Unwrap(err).index = DeclaredIndex(k)
            /\ pc = "done"
            /\ res = None

\* an implicit index that runs into an earlier explicit one
C3_Witness ==
    /\ ErrKind = "DuplicateIndex"
    /\ i = 3
    /\ decl[3].index = None
    /\ ErrSpans = <<1, 3>>

\* C4 as claimed: two declarations of one name fail with DuplicateName,
\* whatever their indices are.
C4_DuplicateNameAnyIndex ==
    \A k \in 1..i : \A j \in 1..(k - 1) :
        decl[j].name = decl[k].name =>
            /\ i = k
            /\ ErrKind = "DuplicateName"
            /\ ErrSpans = <<j, k>>

\* C4 amended: two declarations of one name fail with DuplicateName, reported
\* at both, when the second one's final index fits into a u8 and is the final
\* index of no earlier declaration.
C4_DuplicateName ==
    \A k \in 1..i : \A j \in 1..(k - 1) :
        ( /\ decl[j].name = decl[k].name
          /\ DeclaredIndex(k) <= U8Max
          /\ \A h \in 1..(k - 1) : DeclaredIndex(h) # DeclaredIndex(k) ) =>
            /\ i = k
            /\ ErrKind = "DuplicateName"
            /\ ErrSpans = <<j, k>>
            /\ pc = "done"
            /\ res = None

\* the third declaration repeats the name of the first
C4_Witness ==
    /\ ErrKind = "DuplicateName"
    /\ i = 3
    /\ ErrSpans = <<1, 3>>

\* C5: a declaration without an explicit index right after final index 255
\* fails with IndexOverflow reported at it; no successful resolution holds an
\* implicit index 0 after the first declaration; and a declaration with an
\* explicit index never raises IndexOverflow.
C5_OverflowFails ==
    /\ \A k \in 2..i :
          (decl[k].index = None /\ DeclaredIndex(k - 1) = U8Max) =>
              /\ i = k
              /\ ErrKind = "IndexOverflow"
              /\ ErrSpans = <<k>>
              /\ pc = "done"
              /\ res = None
    /\ Resolved =>
          \A k \in 2..Len(pallets) :
              decl[k].index = None => pallets[k].index # 0
    /\ ErrKind = "IndexOverflow" => decl[i].index = None

\* 255 reached by implicit counting, then one more implicit declaration
C5_Witness ==
    /\ ErrKind = "IndexOverflow"
    /\ i = 3
    /\ decl[2].index = None
    /\ decl[1].index = Some(254)

----------------------------------------------------------------------------
(* The system pallet *)

\* C6: after a successful resolution the build fails with MissingSystemModule
\* exactly when no declaration is named System, wherever System stands and
\* whatever the Event and Origin parts of the declarations are.
C6_MissingSystem ==
    (pc = "done" /\ Resolved) =>
        /\ ErrKind = "MissingSystemModule" <=> SystemDecls = {}
        /\ ErrKind = "MissingSystemModule" =>
              (ErrSpans = <<0>> /\ res = None /\ outer_event = None)
        /\ SystemDecls # {} =>
              (/\ IsSome(system_pallet)
               /\ Unwrap(system_pallet).span \in SystemDecls)

\* no System, and a declaration whose Event part would be refused
C6_Witness ==
    /\ pc = "done"
    /\ ErrKind = "MissingSystemModule"
    /\ Len(decl) = 2
    /\ Offends(2, "Event")

----------------------------------------------------------------------------
(* The composition lists *)

\* C7: AllPalletsWithSystem, flattened outermost first component first, lists
\* the declared names in declaration order, and AllPallets lists the same
\* order without System.
C7_DeclarationOrder ==
    IsSome(res) =>
        LET declared == [ k \in 1..Len(decl) |-> decl[k].name ]
        IN  /\ flatten(Unwrap(res).all_pallets.all_pallets_with_system) = declared
            /\ flatten(Unwrap(res).all_pallets.all_pallets) =
                  SelectSeq(declared, LAMBDA n : n # SYSTEM_PALLET_NAME)

----------------------------------------------------------------------------
(* The lookup table *)

\* the module type of the k-th declaration: what its generated alias denotes
ModuleType(k) == TypeIdOf(Unwrap(res).all_pallets.types, decl[k].name)

\* the module types over the implementation paths and instances of the inputs
ModuleTypes ==
    [ pallet : {"frame_system", "pallet_x"},
      generics : { <<RuntimeName>> } \cup
                 { <<RuntimeName, <<p, "Instance1">> >> :
                     p \in {"frame_system", "pallet_x"} } ]

\* C8: in a built runtime PalletInfo::index of a declaration's module type is
\* Some(its final index) and PalletInfo::name is Some(its declared name), and
\* both are None for a type no declaration has.
C8_LookupRoundTrip ==
    IsSome(res) =>
        LET types == Unwrap(res).all_pallets.types
            table == Unwrap(res).pallet_to_index
        IN  /\ \A k \in 1..Len(decl) :
                  /\ PalletInfoIndex(types, table.index, ModuleType(k))
                        = Some(DeclaredIndex(k))
                  /\ PalletInfoName(types, table.name, ModuleType(k))
                        = Some(decl[k].name)
            /\ \A P \in ModuleTypes :
                  (\A k \in 1..Len(decl) : ModuleType(k) # P) =>
                      /\ PalletInfoIndex(types, table.index, P) = None
                      /\ PalletInfoName(types, table.name, P) = None

----------------------------------------------------------------------------
(* The event and origin aggregators *)

\* C9: with the declarations resolved and System declared, the build fails
\* with InstanceRequiresGenericEvent at the first declaration that has an
\* instance and an Event part without generics, producing nothing; without
\* such a declaration the event aggregator emits one variant for each
\* declaration that has an Event part, in declaration order, tagged with the
\* declaration's final index.
C9_OuterEvent ==
    (pc = "done" /\ Resolved /\ SystemDecls # {}) =>
        IF Offenders("Event") # {}
        THEN /\ ErrKind = "InstanceRequiresGenericEvent"
             /\ ErrSpans = <<Min(Offenders("Event"))>>
             /\ Unwrap(err).named = <<decl[Min(Offenders("Event"))].name>>
             /\ res = None
             /\ outer_event = None
             /\ outer_origin = None
             /\ all_pallets = None
             /\ pallet_to_index = None
        ELSE /\ ErrKind # "InstanceRequiresGenericEvent"
             /\ outer_event = Some(MeantVariants(Positions, "Event"))

\* two declarations are refused, System and the one after it
C9_Witness ==
    /\ pc = "done"
    /\ ErrKind = "InstanceRequiresGenericEvent"
    /\ Offenders("Event") = {1, 2}
    /\ decl[1].name = SYSTEM_PALLET_NAME

\* the declarations other than System, in declaration order
OtherPositions == SelectSeq(Positions, LAMBDA k : k \notin SystemDecls)

\* C10 as claimed: after event aggregation has passed, any declaration with
\* an instance and an Origin part without generics makes the build fail with
\* InstanceRequiresGenericOrigin at such a declaration; a successful build
\* holds the system origin once, with the final index of System.
C10_OuterOriginAnyDeclaration ==
    (pc = "done" /\ Resolved /\ SystemDecls # {} /\ Offenders("Event") = {}) =>
        /\ Offenders("Origin") # {} =>
              /\ ErrKind = "InstanceRequiresGenericOrigin"
              /\ ErrSpans[1] \in Offenders("Origin")
        /\ IsSome(res) =>
              /\ Unwrap(res).outer_origin.system_index
                    = DeclaredIndex(Min(SystemDecls))
              /\ Unwrap(res).outer_origin.system = decl[Min(SystemDecls)].pallet

\* C10 amended: after event aggregation has passed, a declaration other than
\* System with an instance and an Origin part without generics makes the build
\* fail with InstanceRequiresGenericOrigin at the first such declaration; a
\* successful build holds the system origin once, with the final index of
\* System, beside one variant for each other declaration with an Origin part.
C10_OuterOrigin ==
    (pc = "done" /\ Resolved /\ SystemDecls # {} /\ Offenders("Event") = {}) =>
        LET refused == Offenders("Origin") \ SystemDecls
        IN  /\ refused # {} =>
                  /\ ErrKind = "InstanceRequiresGenericOrigin"
                  /\ ErrSpans = <<Min(refused)>>
                  /\ Unwrap(err).named = <<decl[Min(refused)].name>>
                  /\ res = None
            /\ refused = {} => IsSome(res)
            /\ IsSome(res) =>
                  /\ Unwrap(res).outer_origin.system_index
                        = DeclaredIndex(Min(SystemDecls))
                  /\ Unwrap(res).outer_origin.system
                        = decl[Min(SystemDecls)].pallet
                  /\ Unwrap(res).outer_origin.pallets_tokens
                        = MeantVariants(OtherPositions, "Origin")

\* System, itself with an instance and a plain Origin part, is passed over and
\* the declaration after it is refused
C10_Witness ==
    /\ pc = "done"
    /\ ErrKind = "InstanceRequiresGenericOrigin"
    /\ Len(decl) = 2
    /\ decl[1].name = SYSTEM_PALLET_NAME
    /\ Offends(1, "Origin")
    /\ Offends(2, "Origin")
    /\ ErrSpans = <<2>>

====
